---------------------------- MODULE Spec2Model ----------------------------
(***************************************************************************)
(* ClimaPorClick (src/ClimaPorClick.py): a QGIS plugin that fetches the    *)
(* current weather of a clicked map point from OpenWeatherMap.             *)
(*                                                                         *)
(* Numbers are fixed-point with one decimal: the integer n stands for the  *)
(* Python float n/10 (210 is 21.0).  Coordinates are whole degrees.        *)
(* JSON and Python values are tagged records, so that None, numbers,       *)
(* strings, lists and dicts can be told apart as Python tells them apart.  *)
(***************************************************************************)
EXTENDS Integers, Sequences, FiniteSets, TLC

VARIABLES
    settings_api_key,   \* QSettings value under ClimaPorClick/api_key
    api_key,            \* ClimaPorClick.api_key
    api_client,         \* ClimaPorClick.api_client (NoClient is None)
    requests_available, \* the module-level import of requests succeeded
    map_tool,           \* ClimaPorClick.map_tool has been created and set
    save_enabled,       \* ClimaPorClick.save_enabled
    legend_widget,      \* ClimaPorClick.legend_widget (NoLegend is None)
    temp_layer,         \* the project's layer named TEMP_LAYER_NAME
    gpkg_layer,         \* features of the GeoPackage layer <project>_clima
    handler,            \* the handler in progress, or the last one completed
    message_bar,        \* messages that handler pushed to iface.messageBar()
    message_log,        \* messages that handler wrote to QgsMessageLog
    message_box,        \* QMessageBox dialogs that handler showed
    pc,                 \* "idle", or "request": fetch_weather is in session.get
    call,               \* the fetch_weather call of that handler (NoCall: none)
    retries,            \* urllib3 Retry.total left for the request in progress
    attempts,           \* HTTP requests that handler has sent
    result,             \* what the fetch_weather call returned
    probe_args,         \* arguments of a pure function under check
    probe_ret           \* its return value

plugin_vars == <<settings_api_key, api_key, api_client, requests_available,
                 map_tool, save_enabled>>
view_vars   == <<legend_widget, temp_layer, gpkg_layer>>
event_vars  == <<handler, message_bar, message_log, message_box>>
fetch_vars  == <<pc, call, retries, attempts, result>>
probe_vars  == <<probe_args, probe_ret>>
vars == <<plugin_vars, view_vars, event_vars, fetch_vars, probe_vars>>

----------------------------------------------------------------------------
(* Python / JSON values *)

JNone      == [tag |-> "none"]
JNum(n)    == [tag |-> "num", vnum |-> n]
JStr(s)    == [tag |-> "str", vstr |-> s]
JList(s)   == [tag |-> "list", vlist |-> s]
JDict(f)   == [tag |-> "dict", vdict |-> f]
EmptyDict  == JDict([k \in {} |-> JNone])

IsDict(x)  == x.tag = "dict"
IsNum(x)   == x.tag = "num"

\* bool(x) of Python
Truthy(x) ==
    CASE x.tag = "none" -> FALSE
      [] x.tag = "num"  -> x.vnum /= 0
      [] x.tag = "str"  -> x.vstr /= ""
      [] x.tag = "list" -> Len(x.vlist) > 0
      [] x.tag = "dict" -> DOMAIN x.vdict /= {}
      [] OTHER          -> TRUE

\* x or y
Or(x, y) == IF Truthy(x) THEN x ELSE y

\* d.get(k, dflt) on a dict d
Get(d, k, dflt) == IF k \in DOMAIN d.vdict THEN d.vdict[k] ELSE dflt

\* round(n / d) for n >= 0, d > 0
RoundDiv(n, d) == (2 * n + d) \div (2 * d)

----------------------------------------------------------------------------
(* Module constants, lines 20-41 *)

MS_TO_KNOTS_E5 == 194384    \* MS_TO_KNOTS = 1.94384, times 10^5
MS_TO_KMH_E1   == 36        \* MS_TO_KMH = 3.6, times 10

ICON_EMOJI ==
    [c \in {"01d", "01n", "02d", "02n", "03d", "03n", "04d", "04n", "09d",
            "09n", "10d", "10n", "11d", "11n", "13d", "13n", "50d", "50n"} |->
        CASE c = "01d" -> "sun"
          [] c = "01n" -> "moon"
          [] c = "02d" -> "sun_behind_cloud"
          [] c \in {"02n", "03d", "03n", "04d", "04n"} -> "cloud"
          [] c \in {"09d", "09n", "10n"} -> "rain_cloud"
          [] c = "10d" -> "sun_behind_rain_cloud"
          [] c \in {"11d", "11n"} -> "thunder_cloud"
          [] c \in {"13d", "13n"} -> "snowflake"
          [] OTHER -> "fog"]

\* ICON_EMOJI.get(code, "")
IconOf(code) ==
    IF code.tag = "str" /\ code.vstr \in DOMAIN ICON_EMOJI
    THEN JStr(ICON_EMOJI[code.vstr]) ELSE JStr("")

----------------------------------------------------------------------------
(* WeatherData.from_api_response, lines 88-125.  The value is             *)
(* [ok |-> TRUE, value |-> the WeatherData] or, when the Python code       *)
(* raises, [ok |-> FALSE, exc |-> the exception].                          *)

Returned(v) == [ok |-> TRUE, value |-> v]
Raised(e)   == [ok |-> FALSE, exc |-> e]

\* wind.get(key, 0.0) or 0.0
WindSpeed(wind, key) == Or(Get(wind, key, JNum(0)), JNum(0))

\* round(ms * MS_TO_KNOTS, 1) and round(ms * MS_TO_KMH, 1)
ToKnots(ms) == JNum(RoundDiv(ms.vnum * MS_TO_KNOTS_E5, 100000))
ToKmh(ms)   == JNum(RoundDiv(ms.vnum * MS_TO_KMH_E1, 10))

\* main.get("temp", 0.0)
TemperatureOf(main) == Get(main, "temp", JNum(0))

\* wind.get("deg", 0)
DirectionOf(wind) == Get(wind, "deg", JNum(0))

from_api_response(data) ==
    IF ~IsDict(data) THEN Raised("AttributeError")
    ELSE
    LET main  == Get(data, "main", EmptyDict)
        wind  == Get(data, "wind", EmptyDict)
        wlist == Get(data, "weather", JList(<<EmptyDict>>))
    IN
    IF wlist.tag /= "list" THEN Raised("TypeError")
    ELSE IF Len(wlist.vlist) = 0 THEN Raised("IndexError")
    ELSE
    LET weather == wlist.vlist[1] IN
    IF ~IsDict(wind) THEN Raised("AttributeError")
    ELSE
    LET vel_ms  == WindSpeed(wind, "speed")
        gust_ms == WindSpeed(wind, "gust")
    IN
    IF ~IsNum(vel_ms) \/ ~IsNum(gust_ms) THEN Raised("TypeError")
    ELSE IF ~IsDict(weather) \/ ~IsDict(main) THEN Raised("AttributeError")
    ELSE Returned(
        [ciudad                    |-> Get(data, "name", JStr("Desconocida")),
         descripcion_clima         |-> Get(weather, "description", JStr("")),
         icono_clima               |-> IconOf(Get(weather, "icon", JStr(""))),
         temperatura_celsius       |-> TemperatureOf(main),
         sensacion_termica_celsius |-> Get(main, "feels_like", JNone),
         humedad_porcentaje        |-> Get(main, "humidity", JNone),
         velocidad_viento_kmh      |-> ToKmh(vel_ms),
         velocidad_viento_nudos    |-> ToKnots(vel_ms),
         direccion_viento_grados   |-> DirectionOf(wind),
         rafaga_viento_kmh         |-> ToKmh(gust_ms),
         rafaga_viento_nudos       |-> ToKnots(gust_ms)])

----------------------------------------------------------------------------
(* JSON bodies the upstream can send *)

Absent == [tag |-> "absent"]

\* the dict holding the keys of ks whose value under pick is not Absent
DictOf(ks, pick(_)) == JDict([k \in {x \in ks : pick(x) /= Absent} |-> pick(k)])

MainDict(t, f, h) ==
    LET pick(k) == CASE k = "temp" -> t [] k = "feels_like" -> f [] OTHER -> h
    IN DictOf({"temp", "feels_like", "humidity"}, pick)

WindDict(s, d, g) ==
    LET pick(k) == CASE k = "speed" -> s [] k = "deg" -> d [] OTHER -> g
    IN DictOf({"speed", "deg", "gust"}, pick)

WeatherEntry(d, i) ==
    LET pick(k) == CASE k = "description" -> d [] OTHER -> i
    IN DictOf({"description", "icon"}, pick)

Body(n, m, w, wl) ==
    LET pick(k) == CASE k = "name" -> n [] k = "main" -> m [] k = "wind" -> w
                     [] OTHER -> wl
    IN DictOf({"name", "main", "wind", "weather"}, pick)

Optional(S) == {Absent, JNone} \cup S

MainValues ==
    Optional({MainDict(t, f, h) : t \in Optional({JNum(0), JNum(215)}),
                                  f \in Optional({JNum(0), JNum(198)}),
                                  h \in Optional({JNum(0), JNum(600)})})

WindValues ==
    Optional({WindDict(s, d, g) : s \in Optional({JNum(0), JNum(101), JStr("fast")}),
                                  d \in Optional({JNum(900)}),
                                  g \in Optional({JNum(153)})})

WeatherValues ==
    Optional({JList(<<>>), JList(<<EmptyDict>>),
              JList(<<WeatherEntry(JStr("cielo claro"), JStr("01d"))>>),
              JList(<<WeatherEntry(JStr("niebla"), JStr("99x"))>>)})

NameValues == {Absent, JStr("Madrid")}

\* every decoded JSON document considered: the dicts, and a JSON array
JsonDocuments ==
    {Body(n, m, w, wl) : n \in NameValues, m \in MainValues,
                         w \in WindValues, wl \in WeatherValues}
    \cup {JList(<<>>)}

----------------------------------------------------------------------------
(* WeatherAPIClient, lines 286-412 *)

LAT_MIN == -90
LAT_MAX == 90
LON_MIN == -180
LON_MAX == 180

\* a latitude check with strict comparisons
LatInRange_strict(lat) == LAT_MIN < lat /\ lat < LAT_MAX

LatInRange(lat) == LAT_MIN <= lat /\ lat <= LAT_MAX
LonInRange(lon) == LON_MIN <= lon /\ lon <= LON_MAX

\* a validation that forgets the longitude
validate_coordinates_latonly(lat, lon) ==
    IF ~LatInRange(lat) THEN [valid |-> FALSE, log |-> <<"Latitud invalida">>]
    ELSE [valid |-> TRUE, log |-> <<>>]

\* the value validate_coordinates returns, with the message it logs
validate_coordinates(lat, lon) ==
    IF ~LatInRange(lat) THEN [valid |-> FALSE, log |-> <<"Latitud invalida">>]
    ELSE IF ~LonInRange(lon) THEN [valid |-> FALSE, log |-> <<"Longitud invalida">>]
    ELSE [valid |-> TRUE, log |-> <<>>]

\* a force list without 503
STATUS_FORCELIST_no503 == {500, 502, 504}

\* Retry(total=3, backoff_factor=0.3, status_forcelist=[500, 502, 503, 504])
RETRY_TOTAL       == 3
STATUS_FORCELIST  == {500, 502, 503, 504}
\* urllib3 defaults the Retry object keeps: respect_retry_after_header=True
RETRY_AFTER_STATUS_CODES == {413, 429, 503}

\* session.get(url, timeout=API_TIMEOUT): a request without answer ends
\* session.get called without a timeout
HasTimeout_none == FALSE

API_TIMEOUT == 10
HasTimeout  == API_TIMEOUT > 0

NoClient == [exists |-> FALSE]

\* WeatherAPIClient(key): _create_session gives None when requests is None
WeatherAPIClient(key, have_requests) ==
    [exists |-> TRUE, api_key |-> key, session |-> have_requests]

\* fetch_weather without the check of the API key
FetchPrecheck_nokey(client, lat, lon) ==
    IF ~validate_coordinates(lat, lon).valid THEN "invalid_coordinates"
    ELSE IF ~client.session THEN "Modulo requests no disponible"
    ELSE "go"

\* The checks of fetch_weather before the request, lines 347-364: "go", or
\* the reason it returns None at once
FetchPrecheck(client, lat, lon) ==
    IF ~validate_coordinates(lat, lon).valid THEN "invalid_coordinates"
    ELSE IF client.api_key = <<>> THEN "API key no configurada"
    ELSE IF ~client.session THEN "Modulo requests no disponible"
    ELSE "go"

PrecheckLog(client, lat, lon) ==
    IF ~validate_coordinates(lat, lon).valid
    THEN validate_coordinates(lat, lon).log
    ELSE <<FetchPrecheck(client, lat, lon)>>

\* Retry.is_retry for a GET: a status of the force list, or a Retry-After
\* header on 413/429/503 while Retry.total is not 0
IsRetry(total, status, has_retry_after) ==
    \/ status \in STATUS_FORCELIST
    \/ total /= 0 /\ has_retry_after /\ status \in RETRY_AFTER_STATUS_CODES

\* a Retry that allows one request more
IsExhausted_late(total) == total < -1

\* Retry.increment: the total left, and is_exhausted of the new Retry
RetryIncrement(total) == total - 1

IsExhausted(total) == total < 0

NotJson == [tag |-> "undecodable"]

\* a return of fetch_weather, and an exception leaving it
ReturnNone(msg)    == [returned |-> TRUE, value |-> JNone, log |-> <<msg>>]
ReturnWeather(w)   == [returned |-> TRUE,
                       value |-> [tag |-> "weather", fields |-> w], log |-> <<>>]
Propagate(e)       == [returned |-> FALSE, exc |-> e, log |-> <<>>]

\* requests maps an exhausted Retry to its own exception
ExhaustedError(kind) ==
    CASE kind = "connect_timeout"  -> "ConnectTimeout"
      [] kind = "no_answer"        -> "ConnectionError"
      [] kind = "connection_error" -> "ConnectionError"
      [] OTHER                     -> "RetryError"

\* except clauses for the network errors only
ExceptClauses_narrow(exc) ==
    CASE exc = "ConnectTimeout"  -> ReturnNone("Timeout conectando a OpenWeather")
      [] exc = "ConnectionError" -> ReturnNone("Error de conexion a OpenWeather")
      [] OTHER                   -> Propagate(exc)

\* the except clauses of fetch_weather, lines 392-412
ExceptClauses(exc) ==
    CASE exc = "ConnectTimeout"  -> ReturnNone("Timeout conectando a OpenWeather")
      [] exc = "ConnectionError" -> ReturnNone("Error de conexion a OpenWeather")
      [] OTHER                   -> ReturnNone("Error inesperado conectando OpenWeather")

\* fetch_weather once session.get has returned response r, lines 371-390
HandleResponse(r) ==
    IF r.body = NotJson THEN ReturnNone("Respuesta invalida de API")
    ELSE IF r.status /= 200
         THEN IF IsDict(r.body) THEN ReturnNone("OpenWeather error")
              ELSE ExceptClauses("AttributeError")
    ELSE LET w == from_api_response(r.body)
         IN  IF w.ok THEN ReturnWeather(w.value) ELSE ExceptClauses(w.exc)

----------------------------------------------------------------------------
(* Bounds and inputs *)

MaxText     == 2    \* length of a text typed in the API key dialog
MaxFeatures == 2    \* successful clicks explored
MaxScript   == 3    \* length of a scripted sequence of upstream answers
CoordMargin == 2    \* degrees probed on each side of a range limit

Chars == {" ", "k"}
Texts == UNION {[1..n -> Chars] : n \in 0..MaxText}

RECURSIVE LStrip(_)
LStrip(s) == IF s /= <<>> /\ Head(s) = " " THEN LStrip(Tail(s)) ELSE s
RECURSIVE RStrip(_)
RStrip(s) == IF s /= <<>> /\ s[Len(s)] = " "
             THEN RStrip(SubSeq(s, 1, Len(s) - 1)) ELSE s
\* str.strip()
Strip(s) == RStrip(LStrip(s))

Keys == {Strip(t) : t \in Texts}

\* keys a caller constructs a WeatherAPIClient with
DirectKeys == {<<>>, <<"k">>}

\* coordinates a click or a caller passes: on and just outside a limit
ClickLats == {LAT_MAX, LAT_MAX + 1}
ClickLons == {LON_MIN - 1, LON_MIN}

\* coordinates validate_coordinates is probed with
ProbeLats == {0} \cup {l + d : l \in {LAT_MIN, LAT_MAX}, d \in -CoordMargin..CoordMargin}
ProbeLons == {0} \cup {l + d : l \in {LON_MIN, LON_MAX}, d \in -CoordMargin..CoordMargin}

WeatherOk == JList(<<WeatherEntry(JStr("cielo claro"), JStr("01d"))>>)

\* the 200 bodies the upstream of the plugin sends
UpstreamBodies ==
    { Body(JStr("Madrid"), MainDict(JNum(215), JNum(198), JNum(600)),
           WindDict(JNum(101), JNum(900), JNum(153)), WeatherOk),
      Body(JStr("Madrid"), MainDict(JNum(215), JNum(0), JNum(0)),
           WindDict(JNum(101), JNum(900), Absent), WeatherOk),
      Body(JStr("Madrid"), MainDict(JNum(215), Absent, Absent),
           WindDict(JNum(101), JNum(900), Absent), WeatherOk),
      Body(JStr("Madrid"), MainDict(JNone, JNone, JNone),
           WindDict(JNone, JNum(900), JNone), WeatherOk),
      Body(Absent, Absent, Absent, Absent),
      Body(JStr("Madrid"), MainDict(JNum(215), JNum(198), JNum(600)),
           WindDict(JNum(101), JNum(900), JNum(153)), JList(<<>>)),
      Body(JStr("Madrid"), JNone, Absent, WeatherOk),
      Body(JStr("Madrid"), Absent, WindDict(JStr("fast"), Absent, Absent), WeatherOk),
      JList(<<>>),
      NotJson }

ErrorBodies == {JDict([k \in {"message"} |-> JStr("error")]), JList(<<>>), NotJson}

Statuses == {200, 401, 404, 429, 500, 503}

BodiesFor(st) == IF st = 200 THEN UpstreamBodies ELSE ErrorBodies

\* what the upstream does with one HTTP request
Upstream ==
    {[kind |-> k] : k \in {"connection_error", "connect_timeout", "no_answer"}}
    \cup UNION {{[kind |-> "response", status |-> st, retry_after |-> ra, body |-> b] :
                    ra \in BOOLEAN, b \in BodiesFor(st)} : st \in Statuses}

----------------------------------------------------------------------------
(* The plugin, lines 415-776 *)

NoValue  == [present |-> FALSE]
Stored(k) == [present |-> TRUE, value |-> k]
\* settings.value(key, type=str) or ""
SettingsValue(st) == IF st.present THEN st.value ELSE <<>>

NoLegend == [shown |-> FALSE]
NoLayer  == [exists |-> FALSE]
NoCall   == [made |-> FALSE]
NoResult == [returned |-> FALSE, exc |-> "not called", log |-> <<>>]
NoProbe  == <<>>

Info(kind, text)    == [level |-> "Info", kind |-> kind, text |-> text]
Warning(kind, text) == [level |-> "Warning", kind |-> kind, text |-> text]

FeatureCount == IF temp_layer.exists THEN Len(temp_layer.features) ELSE 0

Idle == pc = "idle"

\* the state __init__ leaves, for a stored setting and an import outcome
InitState(stored, have_requests) ==
    /\ settings_api_key = stored
    /\ api_key = SettingsValue(stored)
    /\ api_client = NoClient
    /\ requests_available = have_requests
    /\ map_tool = FALSE
    /\ save_enabled = TRUE
    /\ legend_widget = NoLegend
    /\ temp_layer = NoLayer
    /\ gpkg_layer = <<>>
    /\ handler = "__init__"
    /\ message_bar = <<>>
    /\ message_log = <<>>
    /\ message_box = <<>>
    /\ pc = "idle"
    /\ call = NoCall
    /\ retries = 0
    /\ attempts = 0
    /\ result = NoResult

Init ==
    /\ \E stored \in {NoValue} \cup {Stored(k) : k \in Keys \ {<<>>}},
          have_requests \in BOOLEAN : InitState(stored, have_requests)
    /\ probe_args = NoProbe
    /\ probe_ret = NoProbe

\* the API key dialog closed with OK on a text that is not blank
Accepted(text, ok) == ok /\ Strip(text) /= <<>>

\* configure_api_key_dialog: the api_key, the stored value and the client
\* it leaves, lines 504-510
KeyAfterDialog(text, ok)      == IF Accepted(text, ok) THEN Strip(text) ELSE api_key
SettingsAfterDialog_unsaved(text, ok) == settings_api_key
SettingsAfterDialog(text, ok) ==
    IF Accepted(text, ok) THEN Stored(Strip(text)) ELSE settings_api_key
ClientAfterDialog_stale(text, ok) == api_client
ClientAfterDialog(text, ok)   ==
    IF Accepted(text, ok) THEN WeatherAPIClient(Strip(text), requests_available)
    ELSE api_client

\* the information box that follows an accepted dialog, lines 513-517
Saved == <<"API Key guardada correctamente.">>
BoxAfterDialog(text, ok) == IF Accepted(text, ok) THEN Saved ELSE <<>>

\* a handler starts: what it has pushed and logged when it ends or blocks
StartHandler(name, bar, log) ==
    /\ handler' = name
    /\ message_bar' = bar
    /\ message_log' = log
    /\ UNCHANGED <<probe_vars, requests_available>>

NoFetch ==
    /\ pc' = "idle"
    /\ call' = NoCall
    /\ retries' = 0
    /\ attempts' = 0
    /\ result' = NoResult

\* the menu action "Configurar Clima por Click"
configure_api_key_dialog(text, ok) ==
    /\ Idle
    /\ ok \/ text = <<>>      \* the text of a cancelled dialog is not read
    /\ api_key' = KeyAfterDialog(text, ok)
    /\ settings_api_key' = SettingsAfterDialog(text, ok)
    /\ api_client' = ClientAfterDialog(text, ok)
    /\ message_box' = BoxAfterDialog(text, ok)
    /\ StartHandler("configure_api_key_dialog", <<>>, <<>>)
    /\ NoFetch
    /\ UNCHANGED <<map_tool, save_enabled, view_vars>>

\* ensure_api_key, lines 519-524: the dialog opens only without a key
EnsuredClient(key, client) ==
    IF key /= <<>> /\ ~client.exists
    THEN WeatherAPIClient(key, requests_available) ELSE client

\* the toolbar button: ensure_api_key, then the map tool and a hint
activate_tool(text, ok) ==
    /\ Idle
    /\ IF api_key = <<>>
       THEN /\ ok \/ text = <<>>
            /\ api_key' = KeyAfterDialog(text, ok)
            /\ settings_api_key' = SettingsAfterDialog(text, ok)
            /\ api_client' = EnsuredClient(KeyAfterDialog(text, ok),
                                           ClientAfterDialog(text, ok))
            /\ message_box' = BoxAfterDialog(text, ok)
       ELSE /\ text = <<>> /\ ~ok
            /\ api_client' = EnsuredClient(api_key, api_client)
            /\ message_box' = <<>>
            /\ UNCHANGED <<api_key, settings_api_key>>
    /\ map_tool' = TRUE
    /\ StartHandler("activate_tool",
                    <<Info("hint", [tag |-> "fmt", of |-> JStr("Haz clic en el mapa para obtener el clima.")])>>,
                    <<>>)
    /\ NoFetch
    /\ UNCHANGED <<save_enabled, view_vars>>

\* the legend's checkbox changes state
set_save_enabled(value) ==
    /\ Idle
    /\ legend_widget.shown
    /\ value /= save_enabled
    /\ save_enabled' = value
    /\ message_box' = <<>>
    /\ StartHandler("set_save_enabled", <<>>, <<>>)
    /\ NoFetch
    /\ UNCHANGED <<settings_api_key, api_key, api_client, map_tool, view_vars>>

----------------------------------------------------------------------------
(* ClickTool.canvasReleaseEvent, lines 695-776, with show_legend and      *)
(* ensure_temp_layer                                                       *)

\* direccion_viento_desc and color_for_temp are called and not defined in
\* the file: each is taken as some function of its argument
direccion_viento_desc(deg) == [tag |-> "direccion", of |-> deg]
color_for_temp(temp)       == [tag |-> "color", of |-> temp]

\* f"{x}" and str.capitalize()
Fmt(x)        == [tag |-> "fmt", of |-> x]
Capitalize(x) == [tag |-> "capitalize", of |-> x]
Text(s)       == Fmt(JStr(s))
NoText        == Text("")

\* the attributes of the temporary layer's feature, lines 736-747
FeatureAttributes(w) ==
    [ciudad                    |-> w.ciudad,
     descripcion_clima         |-> w.descripcion_clima,
     icono_clima               |-> w.icono_clima,
     temperatura_celsius       |-> w.temperatura_celsius,
     sensacion_termica_celsius |-> Or(w.sensacion_termica_celsius, JNum(0)),
     humedad_porcentaje        |-> Or(w.humedad_porcentaje, JNum(0)),
     velocidad_viento_kmh      |-> w.velocidad_viento_kmh,
     velocidad_viento_nudos    |-> w.velocidad_viento_nudos,
     direccion_viento_grados   |-> w.direccion_viento_grados,
     rafaga_viento_kmh         |-> w.rafaga_viento_kmh]

\* the attributes save_weather persists, lines 268-281 (no timestamp)
SaveAttributes(lon, lat, w) ==
    [latitud                   |-> lat,
     longitud                  |-> lon,
     ciudad                    |-> w.ciudad,
     descripcion_clima         |-> w.descripcion_clima,
     temperatura_celsius       |-> w.temperatura_celsius,
     sensacion_termica_celsius |-> Or(w.sensacion_termica_celsius, JNum(0)),
     humedad_porcentaje        |-> Or(w.humedad_porcentaje, JNum(0)),
     velocidad_viento_kmh      |-> w.velocidad_viento_kmh,
     velocidad_viento_nudos    |-> w.velocidad_viento_nudos,
     direccion_viento_grados   |-> w.direccion_viento_grados,
     rafaga_viento_kmh         |-> w.rafaga_viento_kmh,
     icono_clima               |-> w.icono_clima]

\* show_legend: " (sens. X C)" unless the value is None, lines 583-585
LegendSens(w) ==
    IF w.sensacion_termica_celsius /= JNone
    THEN Fmt(w.sensacion_termica_celsius) ELSE NoText

\* the legend's text and style, lines 582-609
LegendOf(w) ==
    [shown  |-> TRUE,
     ciudad |-> Fmt(w.ciudad), icono |-> Fmt(w.icono_clima),
     temp   |-> Fmt(w.temperatura_celsius),
     sens   |-> LegendSens(w),
     desc   |-> Capitalize(w.descripcion_clima),
     viento |-> <<Fmt(w.velocidad_viento_nudos), Fmt(w.velocidad_viento_kmh),
                  direccion_viento_desc(w.direccion_viento_grados)>>,
     rafaga |-> IF w.rafaga_viento_nudos.vnum > 0
                THEN Fmt(w.rafaga_viento_nudos) ELSE NoText,
     style  |-> color_for_temp(w.temperatura_celsius)]

\* the popup: " (sens. X C)" if sens is truthy, lines 758-759
PopupSens(w) ==
    IF Truthy(w.sensacion_termica_celsius)
    THEN Fmt(w.sensacion_termica_celsius) ELSE NoText

\* the popup: humidity or a dash, line 767
PopupHumidity(w) == Fmt(Or(w.humedad_porcentaje, JStr("-")))

\* the popup's text, lines 762-769
PopupOf(w) ==
    [ciudad |-> Fmt(w.ciudad), icono |-> Fmt(w.icono_clima),
     temp   |-> Fmt(w.temperatura_celsius),
     sens   |-> PopupSens(w),
     viento |-> <<Fmt(w.velocidad_viento_nudos), Fmt(w.velocidad_viento_kmh),
                  direccion_viento_desc(w.direccion_viento_grados)>>,
     humedad |-> PopupHumidity(w),
     desc   |-> Capitalize(w.descripcion_clima)]

TEMP_LAYER_NAME == "Clima por Click (temporal)"

Feature(lon, lat, w) == [geometry |-> <<lon, lat>>, attributes |-> FeatureAttributes(w)]

LayerWith_fresh(layer, feat) ==
    [exists |-> TRUE, name |-> TEMP_LAYER_NAME, features |-> <<feat>>]

\* ensure_temp_layer, then the feature is added, lines 733-752
LayerWith(layer, feat) ==
    IF layer.exists
    THEN [layer EXCEPT !.features = Append(@, feat)]
    ELSE [exists |-> TRUE, name |-> TEMP_LAYER_NAME, features |-> <<feat>>]

\* the handler from the return of fetch_weather on, lines 723-776: res is
\* what fetch_weather did, bar and log what the handler has pushed and logged
AfterFetch(res, lon, lat, bar, log) ==
    /\ message_log' = log \o res.log
    /\ UNCHANGED <<gpkg_layer>>
    /\ IF ~res.returned
       THEN /\ message_bar' = bar
            /\ UNCHANGED <<legend_widget, temp_layer>>
       ELSE IF ~Truthy(res.value)
       THEN /\ message_bar' = Append(bar,
                Warning("failure", Text("No se pudo obtener el clima para esta ubicacion.")))
            /\ UNCHANGED <<legend_widget, temp_layer>>
       ELSE LET w == res.value.fields IN
            /\ temp_layer' = LayerWith(temp_layer, Feature(lon, lat, w))
            /\ legend_widget' = LegendOf(w)
            /\ message_bar' =
                  (IF legend_widget.shown THEN bar
                   ELSE Append(bar, Info("legend_widget", NoText)))
                  \o <<Info("popup", PopupOf(w))>>

Loading == <<Info("loading", Text("Consultando clima..."))>>

CallOf(client, lat, lon) ==
    [made |-> TRUE, api_key |-> client.api_key, session |-> client.session,
     lat |-> lat, lon |-> lon]

\* fetch_weather returns None before any request
Rejected(client, lat, lon) ==
    [returned |-> TRUE, value |-> JNone, log |-> PrecheckLog(client, lat, lon)]

\* a click on the map at (lon, lat), up to the first HTTP request
canvasReleaseEvent(lat, lon) ==
    /\ Idle
    /\ map_tool
    /\ FeatureCount < MaxFeatures
    /\ handler' = "canvasReleaseEvent"
    /\ message_box' = <<>>
    /\ UNCHANGED <<plugin_vars, probe_vars>>
    /\ IF ~api_client.exists
       THEN /\ message_bar' = Loading
            /\ message_log' = <<"Cliente API no inicializado">>
            /\ NoFetch
            /\ UNCHANGED view_vars
       ELSE IF FetchPrecheck(api_client, lat, lon) /= "go"
       THEN /\ pc' = "idle"
            /\ call' = CallOf(api_client, lat, lon)
            /\ retries' = 0
            /\ attempts' = 0
            /\ result' = Rejected(api_client, lat, lon)
            /\ AfterFetch(Rejected(api_client, lat, lon), lon, lat, Loading, <<>>)
       ELSE /\ pc' = "request"
            /\ call' = CallOf(api_client, lat, lon)
            /\ retries' = RETRY_TOTAL
            /\ attempts' = 0
            /\ result' = NoResult
            /\ message_bar' = Loading
            /\ message_log' = <<>>
            /\ UNCHANGED view_vars

\* WeatherAPIClient(key).fetch_weather(lat, lon) called on its own
fetch_weather(key, lat, lon) ==
    LET client == WeatherAPIClient(key, requests_available) IN
    /\ Idle
    /\ handler' = "fetch_weather"
    /\ message_bar' = <<>>
    /\ message_box' = <<>>
    /\ call' = CallOf(client, lat, lon)
    /\ attempts' = 0
    /\ UNCHANGED <<plugin_vars, probe_vars, view_vars>>
    /\ IF FetchPrecheck(client, lat, lon) /= "go"
       THEN /\ pc' = "idle"
            /\ retries' = 0
            /\ result' = Rejected(client, lat, lon)
            /\ message_log' = PrecheckLog(client, lat, lon)
       ELSE /\ pc' = "request"
            /\ retries' = RETRY_TOTAL
            /\ result' = NoResult
            /\ message_log' = <<>>

\* session.get sends one request and the upstream does u: the request is
\* retried, or session.get never returns, or fetch_weather ends with outcome
SessionGet(total, u) ==
    IF u.kind = "no_answer" /\ ~HasTimeout
    THEN [next |-> "blocked"]
    ELSE IF u.kind /= "response" \/ IsRetry(total, u.status, u.retry_after)
    THEN IF IsExhausted(RetryIncrement(total))
         THEN [next |-> "done", outcome |-> ExceptClauses(ExhaustedError(u.kind))]
         ELSE [next |-> "retry", total |-> RetryIncrement(total)]
    ELSE [next |-> "done", outcome |-> HandleResponse(u)]

\* one HTTP request of the fetch in progress and what follows it
HttpAttempt(u) ==
    /\ pc = "request"
    /\ attempts' = attempts + 1
    /\ UNCHANGED <<plugin_vars, probe_vars, handler, message_box, call>>
    /\ LET step == SessionGet(retries, u) IN
       CASE step.next = "blocked" ->
              /\ pc' = "blocked"
              /\ UNCHANGED <<retries, result, message_bar, message_log, view_vars>>
         [] step.next = "retry" ->
              /\ pc' = "request"
              /\ retries' = step.total
              /\ UNCHANGED <<result, message_bar, message_log, view_vars>>
         [] OTHER ->
              /\ pc' = "idle"
              /\ retries' = 0
              /\ result' = step.outcome
              /\ IF handler = "canvasReleaseEvent"
                 THEN AfterFetch(step.outcome, call.lon, call.lat,
                                 message_bar, message_log)
                 ELSE /\ message_log' = message_log \o step.outcome.log
                      /\ UNCHANGED <<message_bar, view_vars>>

Next ==
    \/ \E text \in Texts, ok \in BOOLEAN : configure_api_key_dialog(text, ok)
    \/ \E text \in Texts, ok \in BOOLEAN : activate_tool(text, ok)
    \/ \E value \in BOOLEAN : set_save_enabled(value)
    \/ \E lat \in ClickLats, lon \in ClickLons : canvasReleaseEvent(lat, lon)
    \/ \E key \in DirectKeys, lat \in ClickLats, lon \in ClickLons :
          fetch_weather(key, lat, lon)
    \/ \E u \in Upstream : HttpAttempt(u)

Spec == Init /\ [][Next]_vars

\* every HTTP request is answered or times out, and the retry follows
FairSpec == Spec /\ WF_vars(\E u \in Upstream : HttpAttempt(u))

----------------------------------------------------------------------------
(* validate_coordinates on its own *)

InitValidate ==
    /\ InitState(NoValue, TRUE)
    /\ probe_args \in ProbeLats \X ProbeLons
    /\ probe_ret = NoProbe

CallValidate ==
    /\ probe_ret = NoProbe
    /\ probe_ret' = <<validate_coordinates(probe_args[1], probe_args[2])>>
    /\ UNCHANGED <<plugin_vars, view_vars, event_vars, fetch_vars, probe_args>>

NextValidate == CallValidate

SpecValidate == InitValidate /\ [][NextValidate]_vars

(* WeatherData.from_api_response on its own *)

InitParse ==
    /\ InitState(NoValue, TRUE)
    /\ probe_args \in {<<d>> : d \in JsonDocuments}
    /\ probe_ret = NoProbe

CallParse ==
    /\ probe_ret = NoProbe
    /\ probe_ret' = <<from_api_response(probe_args[1])>>
    /\ UNCHANGED <<plugin_vars, view_vars, event_vars, fetch_vars, probe_args>>

NextParse == CallParse

SpecParse == InitParse /\ [][NextParse]_vars

(* fetch_weather against an upstream that follows a script: probe_args is  *)
(* the sequence of its answers, one for each HTTP request                  *)

ErrorDict == JDict([k \in {"message"} |-> JStr("error")])

ScriptAnswers ==
    {[kind |-> k] : k \in {"connection_error", "no_answer"}}
    \cup {[kind |-> "response", status |-> st, retry_after |-> ra, body |-> ErrorDict] :
            st \in {401, 404, 429, 500, 503}, ra \in BOOLEAN}
    \cup {[kind |-> "response", status |-> 200, retry_after |-> FALSE, body |-> b] :
            b \in {Body(JStr("Madrid"), MainDict(JNum(215), JNum(198), JNum(600)),
                        WindDict(JNum(101), JNum(900), JNum(153)), WeatherOk),
                   Body(Absent, Absent, Absent, Absent)}}

Scripts == UNION {[1..n -> ScriptAnswers] : n \in 1..MaxScript}

InitScript ==
    /\ InitState(Stored(<<"k">>), TRUE)
    /\ probe_args \in Scripts
    /\ probe_ret = NoProbe

ScriptedFetch == fetch_weather(<<"k">>, LAT_MAX, LON_MIN)

ScriptedAttempt ==
    /\ attempts < Len(probe_args)
    /\ HttpAttempt(probe_args[attempts + 1])

NextScript == ScriptedFetch \/ ScriptedAttempt

SpecScript == InitScript /\ [][NextScript]_vars

----------------------------------------------------------------------------
(* Properties *)

CallDone == call.made /\ pc = "idle"
ReturnedNone == result.returned /\ result.value = JNone
ReturnedWeather == result.returned /\ result.value /= JNone

\* C1: no HTTP request is sent while the key in use is empty or the plugin
\* has no client: a request in progress or sent belongs to a call whose
\* key is not empty, a call with an empty key has returned None, and a
\* click without a key or a client sends nothing.
C1_NoRequestWithoutKey ==
    /\ (pc /= "idle" \/ attempts > 0) => call.made /\ call.api_key /= <<>>
    /\ call.made /\ call.api_key = <<>> => pc = "idle" /\ ReturnedNone
    /\ (handler = "canvasReleaseEvent" /\ (api_key = <<>> \/ ~api_client.exists))
          => pc = "idle" /\ attempts = 0

\* fetch_weather was called with an empty key, valid coordinates and a session
C1_Witness ==
    /\ CallDone /\ call.api_key = <<>> /\ call.session
    /\ call.lat = 90 /\ call.lon = -180
    /\ ReturnedNone /\ attempts = 0

\* C2: a call whose latitude is outside [-90, 90] or whose longitude is
\* outside [-180, 180] has returned None and has sent no HTTP request.
C2_OutOfRangeRejected ==
    (call.made /\ (call.lat < -90 \/ call.lat > 90 \/ call.lon < -180 \/ call.lon > 180))
        => pc = "idle" /\ attempts = 0 /\ ReturnedNone

\* a call with a key and a session, and the longitude alone out of range
C2_Witness ==
    /\ CallDone /\ call.api_key /= <<>> /\ call.session
    /\ call.lat = 90 /\ call.lon = -181
    /\ ReturnedNone /\ attempts = 0

\* C3: validate_coordinates(lat, lon) is True exactly when
\* -90 <= lat <= 90 and -180 <= lon <= 180.
C3_ValidateIff ==
    probe_ret /= NoProbe =>
        (probe_ret[1].valid <=>
            (/\ -90 <= probe_args[1] /\ probe_args[1] <= 90
             /\ -180 <= probe_args[2] /\ probe_args[2] <= 180))

\* the latitude on its upper limit is accepted with the longitude on its
\* lower limit
C3_Witness ==
    /\ probe_ret /= NoProbe
    /\ probe_args = <<90, -180>>
    /\ probe_ret[1].valid

IsStatus(u, st) == u.kind = "response" /\ u.status = st

\* C5: when the upstream answers 503, 503 and then 200 with a valid body,
\* the fetch ends after 3 requests with the record of the third answer.
C5_TwoFailuresThenSuccess ==
    (/\ CallDone
     /\ Len(probe_args) >= 3
     /\ IsStatus(probe_args[1], 503) /\ IsStatus(probe_args[2], 503)
     /\ IsStatus(probe_args[3], 200)
     /\ from_api_response(probe_args[3].body).ok)
        => /\ attempts = 3
           /\ ReturnedWeather
           /\ result.value.fields = from_api_response(probe_args[3].body).value

\* the fetch ended with the record of Madrid after 503, 503, 200
C5_Witness ==
    /\ CallDone /\ attempts = 3
    /\ IsStatus(probe_args[1], 503) /\ IsStatus(probe_args[2], 503)
    /\ IsStatus(probe_args[3], 200)
    /\ ReturnedWeather
    /\ result.value.fields.ciudad = JStr("Madrid")

\* C6: when the first answer has a 4xx status, the fetch has failed after
\* that one request: no second request is sent or due.
C6_ClientErrorIsTerminal ==
    (/\ call.made /\ attempts >= 1
     /\ probe_args[1].kind = "response"
     /\ probe_args[1].status \in 400..499)
        => attempts = 1 /\ pc = "idle" /\ ReturnedNone

WeatherDataFields ==
    {"ciudad", "descripcion_clima", "icono_clima", "temperatura_celsius",
     "sensacion_termica_celsius", "humedad_porcentaje", "velocidad_viento_kmh",
     "velocidad_viento_nudos", "direccion_viento_grados", "rafaga_viento_kmh",
     "rafaga_viento_nudos"}

\* C7: a call of fetch_weather that has ended has returned, never raised,
\* and returned None or a WeatherData with every field; what it logged as
\* an error goes with None.
C7_AllOrNothing ==
    CallDone =>
        /\ result.returned
        /\ \/ result.value = JNone
           \/ /\ result.value.tag = "weather"
              /\ DOMAIN result.value.fields = WeatherDataFields
              /\ result.log = <<>>

\* the body of a 200 answer made from_api_response raise
C7_Witness ==
    /\ CallDone /\ attempts = 1 /\ ReturnedNone
    /\ result.log = <<"Error inesperado conectando OpenWeather">>

\* C8: a fetch that is in session.get ends.
C8_FetchTerminates == (pc = "request") ~> (pc = "idle")

\* a fetch ended by timeouts only, the retries used up
C8_Witness ==
    /\ CallDone /\ attempts = 4
    /\ result.log = <<"Timeout conectando a OpenWeather">>

ClickSucceeded ==
    /\ handler = "canvasReleaseEvent" /\ CallDone /\ ReturnedWeather

LastFeature == temp_layer.features[Len(temp_layer.features)]
LastPopup   == message_bar[Len(message_bar)].text

\* C9: after a successful click whose record lacks feels-like (humidity),
\* every output that carries the field differs from what it carries for a
\* feels-like (humidity) of 0.
C9_AbsentDistinctFromZero ==
    ClickSucceeded =>
        LET w     == result.value.fields
            sens0 == [w EXCEPT !.sensacion_termica_celsius = JNum(0)]
            hum0  == [w EXCEPT !.humedad_porcentaje = JNum(0)]
        IN
        /\ w.sensacion_termica_celsius = JNone =>
              /\ legend_widget.sens /= LegendSens(sens0)
              /\ LastPopup.sens /= PopupSens(sens0)
              /\ LastFeature.attributes /= FeatureAttributes(sens0)
              /\ SaveAttributes(call.lon, call.lat, w)
                    /= SaveAttributes(call.lon, call.lat, sens0)
        /\ w.humedad_porcentaje = JNone =>
              /\ LastPopup.humedad /= PopupHumidity(hum0)
              /\ LastFeature.attributes /= FeatureAttributes(hum0)
              /\ SaveAttributes(call.lon, call.lat, w)
                    /= SaveAttributes(call.lon, call.lat, hum0)

NumericFields ==
    {"temperatura_celsius", "velocidad_viento_kmh", "velocidad_viento_nudos",
     "direccion_viento_grados", "rafaga_viento_kmh", "rafaga_viento_nudos"}

\* C10: in a WeatherData that from_api_response returns, the temperature,
\* the wind speeds, the wind direction and the gusts are numbers.
C10_NumericFieldsAreNumbers ==
    (probe_ret /= NoProbe /\ probe_ret[1].ok) =>
        \A f \in NumericFields : probe_ret[1].value[f].tag = "num"

\* a step that changes the key in memory or the stored one
KeyChanged == api_key' /= api_key \/ settings_api_key' /= settings_api_key

\* the API key dialog was accepted with a text that is not blank, from the
\* menu action or from activate_tool's ensure_api_key
DialogAccepted ==
    /\ handler' \in {"configure_api_key_dialog", "activate_tool"}
    /\ message_box' = Saved

\* C11: in every reachable state the api_key in memory is the value stored
\* in the settings (absent read as empty), and a step changes either of
\* them only when the API key dialog was accepted with a text that is not
\* blank, which leaves the stripped text in both.
C11_KeyPersisted ==
    /\ [](api_key = SettingsValue(settings_api_key))
    /\ [][KeyChanged => /\ DialogAccepted
                        /\ api_key' /= <<>>
                        /\ settings_api_key' = Stored(api_key')]_vars

C11_Witness ==
    /\ handler = "configure_api_key_dialog"
    /\ message_box = Saved
    /\ api_client.exists
    /\ api_key = <<"k", "k">>
    /\ settings_api_key = Stored(<<"k", "k">>)

\* the handler of a click has ended; it ended without a weather record
ClickEnded  == handler = "canvasReleaseEvent" /\ pc = "idle"
ClickFailed == ClickEnded /\ ~ReturnedWeather

IsWarning(m) == m.level = "Warning"
Warnings == SelectSeq(message_bar, IsWarning)

\* C12: when a click ends without a weather record (no client, invalid
\* coordinate, network failure, HTTP error, malformed response) the message
\* bar has received exactly one warning for that click.
C12_OneWarningPerFailedClick == ClickFailed => Len(Warnings) = 1

\* what C12 asks, for the clicks that reach fetch_weather
C12_OneWarningAfterFailedFetch ==
    (ClickFailed /\ call.made) => Len(Warnings) = 1

\* the step in which a click's fetch returns a weather record and the
\* handler runs to its end
ClickSucceeds == pc = "request" /\ ClickSucceeded'

\* C13: the step that ends a successful click appends exactly one feature
\* for that click to the GeoPackage layer when save_enabled is true, and
\* leaves that layer as it was when save_enabled is false.
C13_SaveFollowsToggle ==
    [][ClickSucceeds =>
          gpkg_layer' =
             IF save_enabled
             THEN Append(gpkg_layer,
                         SaveAttributes(call.lon, call.lat, result'.value.fields))
             ELSE gpkg_layer]_vars

\* what the code does: nothing is appended, whatever the toggle
C13_NothingSaved == [][gpkg_layer' = gpkg_layer]_vars

\* C14: if the plugin has an api_client, the key that client holds is the
\* plugin's current api_key and is not empty; and the fetch of a click is
\* made with the current api_key, not empty.
C14_ClientHoldsCurrentKey ==
    /\ api_client.exists =>
          api_client.api_key = api_key /\ api_client.api_key /= <<>>
    /\ (handler = "canvasReleaseEvent" /\ call.made) =>
          call.api_key = api_key /\ call.api_key /= <<>>

\* a click whose fetch is under way with the stored two-character key
C14_Witness ==
    /\ handler = "canvasReleaseEvent"
    /\ call.made /\ attempts > 0
    /\ call.api_key = <<"k", "k">>
    /\ settings_api_key = Stored(<<"k", "k">>)

FeaturesOf(layer) == IF layer.exists THEN layer.features ELSE <<>>

\* one feature at the click's point is added to the temporary layer, which
\* is the layer there was if there was one
OneFeatureAdded ==
    /\ temp_layer'.exists
    /\ temp_layer'.name = TEMP_LAYER_NAME
    /\ Len(temp_layer'.features) = Len(FeaturesOf(temp_layer)) + 1
    /\ SubSeq(temp_layer'.features, 1, Len(FeaturesOf(temp_layer)))
          = FeaturesOf(temp_layer)
    /\ LastFeature'.geometry = <<call'.lon, call'.lat>>
    /\ legend_widget'.shown

\* C15: a step of a click's handler that does not end it with a weather
\* record (no api_client, fetch_weather returns None, the fetch is still
\* under way) leaves the temporary layer, the GeoPackage layer and the
\* legend as they were; the step that ends it with a weather record adds
\* exactly one feature to the one temporary layer named TEMP_LAYER_NAME,
\* created only if there was none.
C15_FailedClickChangesNothing ==
    [][handler' = "canvasReleaseEvent" =>
          IF ClickSucceeded'
          THEN OneFeatureAdded
          ELSE UNCHANGED <<legend_widget, temp_layer, gpkg_layer>>]_vars

\* a click that failed after one that succeeded
C15_Witness ==
    /\ ClickFailed /\ call.made /\ attempts > 0
    /\ FeatureCount = 1
    /\ legend_widget.shown

============================================================================
